---- MODULE Spec2Model ----
(***************************************************************************)
(* Model of service/time_series_forecast_service.py: the GPU ticket queue  *)
(* (GPU_QUEUE, GPU_QUEUE_ID), the busy flag (GPU_DEVICE_BUSY) and the      *)
(* per-call control flow of ForecastServicer.forecast, run by the worker   *)
(* threads of the gRPC server's ThreadPoolExecutor.                        *)
(*                                                                         *)
(* The module globals are read and written without any lock, so every     *)
(* read and every write of a global is a step of its own and the steps of  *)
(* different workers interleave freely.                                    *)
(***************************************************************************)
EXTENDS Integers, Sequences, FiniteSets, TLC

\* ------------------------------------------------------------------ bounds
\* max_workers of serve(): the threads that run forecast() concurrently.
NumWorkers == 2
\* Total number of forecast calls the server receives in a run.
MaxCalls == 3
\* Scaled stand-in for the 60 * 60 polls of line 61.
PollLimit == 3
\* Scaled stand-in for the 60 polls between two diagnostics of line 58.
LogEvery == 2

\* Largest ticket and longest queue of the states release_gpu is tried on.
MaxTicket == 2
MaxLen == 3

Workers == 1..NumWorkers
CallIds == 1..MaxCalls

\* ------------------------------------------------------------------ values
NoTicket == -1

Output(w, l, p) ==
    [last_sax_word |-> w, forecast_sax_letter |-> l, position_in_sax_interval |-> p]

\* Output() with no arguments: the protobuf defaults.
OutputDefault == Output("", "", 0)
\* The Output of the except handler (lines 124-126).
OutputFail == Output("Fail", "Fail", -1)
\* The Output built and dropped at lines 62-64.
OutputGpuBusy == Output("GPU Busy!", "GPU Busy!", -1)

\* return_dict.get("response", None): what the forecast process left behind.
\*   kind "none"  : no "response" key (the process died) or an empty dict
\*   kind "error" : a dict with an "error" key
\*   kind "ok"    : a dict with the three result keys
Response(k, e, w, l, p) ==
    [kind |-> k, error |-> e,
     last_sax_word |-> w, forecast_sax_letter |-> l, position_in_sax_interval |-> p]

\* The local before line 96 has bound it.
Unbound == Response("unbound", "None", "", "", 0)
NoResponse == Response("none", "None", "", "", 0)
ErrorResponse == Response("error", "forecast error", "", "", 0)
OkResponses == {Response("ok", "None", "abba", "c", 1), Response("ok", "None", "baab", "d", 2)}
Responses == {NoResponse, ErrorResponse} \cup OkResponses

\* The eight parameters of a request / of the servicer / of a Forecast.
Params(wl, wd, al, st, so, co, sd, ed) ==
    [window_len |-> wl, word_len |-> wd, alphabet_size |-> al, source_type |-> st,
     source |-> so, contract |-> co, start_date |-> sd, end_date |-> ed]

\* ForecastServicer.__init__ (lines 33-44).
InitialParams == Params(-1, -1, -1, "financial", "yahoo", "", "", "")

\* The request of call c: every call sends values of its own.
Request(c) ==
    Params(c, c, c, "csv", ToString(c), ToString(c), ToString(c), ToString(c))

VARIABLES
    GPU_DEVICE_BUSY,   \* line 20
    GPU_QUEUE,         \* line 21
    GPU_QUEUE_ID,      \* line 22
    pc,                \* per worker: where its forecast() call stands
    reg,               \* per worker: the value a bytecode has loaded and not yet used
    gpu_queue_id,      \* per worker: the local of line 52
    count,             \* per worker: the local of line 55
    response,          \* per worker: the local of line 96
    handling,          \* per worker: TRUE inside the except handler (118-126)
    result,            \* per worker: what the call gave back to gRPC
    calls,             \* history: number of calls started
    callNo,            \* history: per worker, the number of its current call
    tickets,           \* history: per call, the ticket get_gpu_queue_id returned
    floorId,           \* history: per call, the largest ticket returned before it started
    enqOrder,          \* history: calls in the order of their GPU_QUEUE.append
    acqOrder,          \* history: calls in the order of their acquire_gpu
    acquired,          \* history: per worker, its current call has run acquire_gpu
    releasing,         \* history: per worker, its current call has entered release_gpu
    self,              \* the fields of the one ForecastServicer (lines 33-44, 168)
    fc                 \* per worker: the arguments its Forecast was built with (81-88)

shared == <<GPU_DEVICE_BUSY, GPU_QUEUE, GPU_QUEUE_ID>>
locals == <<pc, reg, gpu_queue_id, count, response, handling, result>>
history == <<calls, callNo, tickets, floorId, enqOrder, acqOrder, acquired, releasing>>
servicer == <<self, fc>>
vars == <<shared, locals, history, servicer>>

\* ------------------------------------------------------------------ helpers
Range(s) == {s[i] : i \in 1..Len(s)}

Max(S) == CHOOSE x \in S : \A y \in S : y <= x

\* Index of the first occurrence of x in s (x is in s).
IndexOf(s, x) == CHOOSE i \in 1..Len(s) : s[i] = x /\ \A j \in 1..(i - 1) : s[j] # x

\* ListRemove as it would be with GPU_QUEUE.pop(0).
ListRemoveHead(s, x) == Tail(s)

\* ListRemove as it would be if every occurrence went.
ListRemoveAll(s, x) ==
    LET F[i \in 0..Len(s)] ==
            IF i = 0 THEN <<>>
            ELSE IF s[i] = x THEN F[i - 1] ELSE Append(F[i - 1], s[i])
    IN  F[Len(s)]

\* list.remove(x) on a list that holds x: the first occurrence goes.
ListRemove(s, x) ==
    LET i == IndexOf(s, x)
    IN  [j \in 1..(Len(s) - 1) |-> IF j < i THEN s[j] ELSE s[j + 1]]

\* What gRPC hands the caller: the returned message, the status code and the
\* details set on the context. status "raised" is an exception that left forecast().
NoResult == [status |-> "running", output |-> OutputDefault, code |-> "OK", details |-> "unset"]
Returned(out, c, d) == [status |-> "returned", output |-> out, code |-> c, details |-> d]
Raised == [status |-> "raised", output |-> OutputDefault, code |-> "UNKNOWN", details |-> "unset"]

\* count += 1 (line 60). Past PollLimit only "count > PollLimit" and
\* "count % LogEvery" are ever read, so the counter is folded back by LogEvery:
\* both readings stay those of the unbounded counter.
NextCount(c) == IF c + 1 > PollLimit + LogEvery THEN c + 1 - LogEvery ELSE c + 1

Init ==
    /\ GPU_DEVICE_BUSY = FALSE
    /\ GPU_QUEUE = <<>>
    /\ GPU_QUEUE_ID = -1
    /\ pc = [t \in Workers |-> "idle"]
    /\ reg = [t \in Workers |-> 0]
    /\ gpu_queue_id = [t \in Workers |-> NoTicket]
    /\ count = [t \in Workers |-> 0]
    /\ response = [t \in Workers |-> Unbound]
    /\ handling = [t \in Workers |-> FALSE]
    /\ result = [t \in Workers |-> NoResult]
    /\ calls = 0
    /\ callNo = [t \in Workers |-> 0]
    /\ tickets = [c \in CallIds |-> NoTicket]
    /\ floorId = [c \in CallIds |-> NoTicket]
    /\ enqOrder = <<>>
    /\ acqOrder = <<>>
    /\ acquired = [t \in Workers |-> FALSE]
    /\ releasing = [t \in Workers |-> FALSE]
    /\ self = InitialParams
    /\ fc = [t \in Workers |-> InitialParams]

\* ------------------------------------------------------- get_gpu_queue_id
\* forecast() is entered (line 52) and GPU_QUEUE_ID += 1 (line 132) loads the global.
get_gpu_queue_id_load(t) ==
    /\ pc[t] \in {"idle", "done"}
    /\ calls < MaxCalls
    /\ calls' = calls + 1
    /\ callNo' = [callNo EXCEPT ![t] = calls + 1]
    /\ floorId' = [floorId EXCEPT ![calls + 1] = Max({tickets[c] : c \in CallIds})]
    /\ reg' = [reg EXCEPT ![t] = GPU_QUEUE_ID]
    /\ gpu_queue_id' = [gpu_queue_id EXCEPT ![t] = NoTicket]
    /\ count' = [count EXCEPT ![t] = 0]
    /\ response' = [response EXCEPT ![t] = Unbound]
    /\ handling' = [handling EXCEPT ![t] = FALSE]
    /\ result' = [result EXCEPT ![t] = NoResult]
    /\ acquired' = [acquired EXCEPT ![t] = FALSE]
    /\ releasing' = [releasing EXCEPT ![t] = FALSE]
    /\ fc' = [fc EXCEPT ![t] = InitialParams]
    /\ pc' = [pc EXCEPT ![t] = "gid_store"]
    /\ UNCHANGED <<self, shared, tickets, enqOrder, acqOrder>>

\* GPU_QUEUE_ID += 1 (line 132) stores the sum.
get_gpu_queue_id_store(t) ==
    /\ pc[t] = "gid_store"
    /\ GPU_QUEUE_ID' = reg[t] + 1
    /\ pc' = [pc EXCEPT ![t] = "gid_arg"]
    /\ UNCHANGED <<servicer, GPU_DEVICE_BUSY, GPU_QUEUE, reg, gpu_queue_id, count, response,
                   handling, result, history>>

\* GPU_QUEUE.append(GPU_QUEUE_ID) (line 133) loads its argument.
get_gpu_queue_id_arg(t) ==
    /\ pc[t] = "gid_arg"
    /\ reg' = [reg EXCEPT ![t] = GPU_QUEUE_ID]
    /\ pc' = [pc EXCEPT ![t] = "gid_append"]
    /\ UNCHANGED <<servicer, shared, gpu_queue_id, count, response, handling, result, history>>

\* GPU_QUEUE.append(GPU_QUEUE_ID) (line 133) appends it.
get_gpu_queue_id_append(t) ==
    /\ pc[t] = "gid_append"
    /\ GPU_QUEUE' = Append(GPU_QUEUE, reg[t])
    /\ enqOrder' = Append(enqOrder, callNo[t])
    /\ pc' = [pc EXCEPT ![t] = "gid_return"]
    /\ UNCHANGED <<servicer, GPU_DEVICE_BUSY, GPU_QUEUE_ID, reg, gpu_queue_id, count, response,
                   handling, result, calls, callNo, tickets, floorId, acqOrder,
                   acquired, releasing>>

\* return GPU_QUEUE_ID (line 135) reads the global again; line 52 binds it.
get_gpu_queue_id_return(t) ==
    /\ pc[t] = "gid_return"
    /\ gpu_queue_id' = [gpu_queue_id EXCEPT ![t] = GPU_QUEUE_ID]
    /\ tickets' = [tickets EXCEPT ![callNo[t]] = GPU_QUEUE_ID]
    /\ pc' = [pc EXCEPT ![t] = "wait_busy"]
    /\ UNCHANGED <<servicer, shared, reg, count, response, handling, result, calls, callNo,
                   floorId, enqOrder, acqOrder, acquired, releasing>>

\* ---------------------------------------------------------------- wait loop
\* AfterPoll as it would be with a raise at lines 62-64.
AfterPollRaising(c) == IF c > PollLimit THEN "except" ELSE "wait_busy"

\* Where the loop goes after count += 1: the Output of lines 62-64 is built
\* and dropped, so the loop is re-entered whatever the count.
AfterPoll(c) == "wait_busy"

\* TimeoutEffect as it would be with the cleanup done inside the loop.
TimeoutRemoves(q, id, c) == IF c > PollLimit /\ id \in Range(q) THEN ListRemove(q, id) ELSE q

\* Lines 61-64: what the limit test does to GPU_QUEUE: nothing, the Output
\* is built from constants and dropped.
TimeoutEffect(q, id, c) == q

\* Line 56, left operand: GPU_DEVICE_BUSY.
wait_busy(t) ==
    /\ pc[t] = "wait_busy"
    /\ pc' = [pc EXCEPT ![t] = IF GPU_DEVICE_BUSY THEN "wait_sleep" ELSE "wait_head"]
    /\ UNCHANGED <<servicer, shared, reg, gpu_queue_id, count, response, handling, result, history>>

\* Line 56, right operand: GPU_QUEUE[0] != gpu_queue_id (IndexError on an empty list).
wait_head(t) ==
    /\ pc[t] = "wait_head"
    /\ pc' = [pc EXCEPT ![t] =
                IF Len(GPU_QUEUE) = 0 THEN "except"
                ELSE IF GPU_QUEUE[1] # gpu_queue_id[t] THEN "wait_sleep"
                ELSE "acquire"]
    /\ UNCHANGED <<servicer, shared, reg, gpu_queue_id, count, response, handling, result, history>>

\* Lines 57-64: sleep, the diagnostic every LogEvery polls (it reads
\* GPU_QUEUE[0]: IndexError on an empty list), count += 1, the limit test.
wait_sleep(t) ==
    /\ pc[t] = "wait_sleep"
    /\ IF count[t] % LogEvery = 0 /\ Len(GPU_QUEUE) = 0
       THEN /\ pc' = [pc EXCEPT ![t] = "except"]
            /\ count' = count
            /\ GPU_QUEUE' = GPU_QUEUE
       ELSE /\ count' = [count EXCEPT ![t] = NextCount(count[t])]
            /\ pc' = [pc EXCEPT ![t] = AfterPoll(count'[t])]
            /\ GPU_QUEUE' = TimeoutEffect(GPU_QUEUE, gpu_queue_id[t], count'[t])
    /\ UNCHANGED <<servicer, GPU_DEVICE_BUSY, GPU_QUEUE_ID, reg, gpu_queue_id, response,
                   handling, result, history>>

\* -------------------------------------------------------------- acquire_gpu
\* Line 67 / 143-147: GPU_DEVICE_BUSY = True, with no test of its value.
acquire_gpu(t) ==
    /\ pc[t] = "acquire"
    /\ GPU_DEVICE_BUSY' = TRUE
    /\ acquired' = [acquired EXCEPT ![t] = TRUE]
    /\ acqOrder' = Append(acqOrder, callNo[t])
    /\ pc' = [pc EXCEPT ![t] = "copy"]
    /\ UNCHANGED <<servicer, GPU_QUEUE, GPU_QUEUE_ID, reg, gpu_queue_id, count, response,
                   handling, result, calls, callNo, tickets, floorId, enqOrder, releasing>>

\* ----------------------------------------------------------------- dispatch
\* Lines 70-79: the request's parameters are stored in the fields of the
\* servicer, the one object all calls share (line 168). The eight stores are
\* taken as one step: splitting them adds interleavings and removes none.
copy_request(t) ==
    /\ pc[t] = "copy"
    /\ self' = Request(callNo[t])
    /\ pc' = [pc EXCEPT ![t] = "dispatch"]
    /\ UNCHANGED <<fc, shared, reg, gpu_queue_id, count, response, handling, result, history>>

\* Lines 81-96: the Forecast is built from the fields of the servicer, run in
\* its own process and joined; return_dict then holds a result, an error, or
\* nothing.
dispatch(t) ==
    /\ pc[t] = "dispatch"
    /\ fc' = [fc EXCEPT ![t] = self]
    /\ \E r \in Responses : response' = [response EXCEPT ![t] = r]
    /\ pc' = [pc EXCEPT ![t] = "check"]
    /\ UNCHANGED <<self, shared, reg, gpu_queue_id, count, handling, result, history>>

\* Lines 69-94 raise (a request field, the Forecast constructor, Manager() or
\* Process.start() failing): control goes to the except handler.
dispatch_raises(t) ==
    /\ pc[t] \in {"copy", "dispatch"}
    /\ pc' = [pc EXCEPT ![t] = "except"]
    /\ UNCHANGED <<servicer, shared, reg, gpu_queue_id, count, response, handling, result, history>>

\* Line 97: not response or "error" in response.
IsFailure(r) == r.kind = "none" \/ r.kind = "error"

\* Line 98: response.get("error", None) if response else None.
ErrorMsg(r) == IF r.kind = "error" THEN r.error ELSE "None"

\* Lines 114-116: the Output of a successful call.
SuccessOutput(r) ==
    Output(r.last_sax_word, r.forecast_sax_letter, r.position_in_sax_interval)

\* Lines 97-110. On a failure: set_details(error_msg), set_code(INTERNAL),
\* return Output(); set_details(None) either raises inside grpc (no str to
\* encode) or is accepted, depending on the grpc build. Otherwise on to release_gpu.
check_response(t) ==
    /\ pc[t] = "check"
    /\ IF IsFailure(response[t])
       THEN \E raises \in BOOLEAN :
              /\ raises => ErrorMsg(response[t]) = "None"
              /\ IF raises
                 THEN /\ pc' = [pc EXCEPT ![t] = "except"]
                      /\ result' = result
                 ELSE /\ pc' = [pc EXCEPT ![t] = "done"]
                      /\ result' = [result EXCEPT ![t] =
                            Returned(OutputDefault, "INTERNAL", ErrorMsg(response[t]))]
       ELSE /\ pc' = [pc EXCEPT ![t] = "rel_remove"]
            /\ result' = result
    /\ UNCHANGED <<servicer, shared, reg, gpu_queue_id, count, response, handling, history>>

\* -------------------------------------------- release_gpu, remove_from_queue
\* Line 140: GPU_QUEUE.remove(gpu_queue_id) raises ValueError when the id is absent.
RemoveRaises(q, id) == id \notin Range(q)

\* Line 140: the queue after GPU_QUEUE.remove(gpu_queue_id).
remove_from_queue(q, id) == ListRemove(q, id)

\* Line 152 (release_gpu, from line 113 or from the handler at line 121):
\* remove_from_queue(gpu_queue_id). A ValueError at line 113 goes to the
\* handler; inside the handler it leaves forecast().
release_gpu_remove(t) ==
    /\ pc[t] = "rel_remove"
    /\ releasing' = [releasing EXCEPT ![t] = TRUE]
    /\ IF RemoveRaises(GPU_QUEUE, gpu_queue_id[t])
       THEN /\ GPU_QUEUE' = GPU_QUEUE
            /\ IF handling[t]
               THEN /\ pc' = [pc EXCEPT ![t] = "done"]
                    /\ result' = [result EXCEPT ![t] = Raised]
               ELSE /\ pc' = [pc EXCEPT ![t] = "except"]
                    /\ result' = result
       ELSE /\ GPU_QUEUE' = remove_from_queue(GPU_QUEUE, gpu_queue_id[t])
            /\ pc' = [pc EXCEPT ![t] = "rel_flag"]
            /\ result' = result
    /\ UNCHANGED <<servicer, GPU_DEVICE_BUSY, GPU_QUEUE_ID, reg, gpu_queue_id, count, response,
                   handling, calls, callNo, tickets, floorId, enqOrder, acqOrder, acquired>>

\* Line 153: GPU_DEVICE_BUSY = False; then the return of line 114 or of line 124.
release_gpu_flag(t) ==
    /\ pc[t] = "rel_flag"
    /\ GPU_DEVICE_BUSY' = FALSE
    /\ result' = [result EXCEPT ![t] =
                    IF handling[t] THEN Returned(OutputFail, "OK", "unset")
                    ELSE Returned(SuccessOutput(response[t]), "OK", "unset")]
    /\ pc' = [pc EXCEPT ![t] = "done"]
    /\ UNCHANGED <<servicer, GPU_QUEUE, GPU_QUEUE_ID, reg, gpu_queue_id, count, response,
                   handling, history>>

\* ------------------------------------------------------------ except handler
\* Line 120: the handler releases when its ticket is at the head of the queue.
HandlerReleases(q, id) == q[1] = id

\* Lines 118-120: gpu_queue_id == GPU_QUEUE[0] (IndexError on an empty list
\* leaves forecast()).
except_head(t) ==
    /\ pc[t] = "except"
    /\ handling' = [handling EXCEPT ![t] = TRUE]
    /\ IF Len(GPU_QUEUE) = 0
       THEN /\ pc' = [pc EXCEPT ![t] = "done"]
            /\ result' = [result EXCEPT ![t] = Raised]
       ELSE /\ pc' = [pc EXCEPT ![t] =
                        IF HandlerReleases(GPU_QUEUE, gpu_queue_id[t])
                        THEN "rel_remove" ELSE "exc_remove"]
            /\ result' = result
    /\ UNCHANGED <<servicer, shared, reg, gpu_queue_id, count, response, history>>

\* Lines 123-126: remove_from_queue(gpu_queue_id), then the "Fail" Output.
except_remove(t) ==
    /\ pc[t] = "exc_remove"
    /\ IF RemoveRaises(GPU_QUEUE, gpu_queue_id[t])
       THEN /\ GPU_QUEUE' = GPU_QUEUE
            /\ result' = [result EXCEPT ![t] = Raised]
       ELSE /\ GPU_QUEUE' = remove_from_queue(GPU_QUEUE, gpu_queue_id[t])
            /\ result' = [result EXCEPT ![t] = Returned(OutputFail, "OK", "unset")]
    /\ pc' = [pc EXCEPT ![t] = "done"]
    /\ UNCHANGED <<servicer, GPU_DEVICE_BUSY, GPU_QUEUE_ID, reg, gpu_queue_id, count, response,
                   handling, history>>

\* ------------------------------------------------------------ specification
Step(t) ==
    \/ get_gpu_queue_id_load(t)
    \/ get_gpu_queue_id_store(t)
    \/ get_gpu_queue_id_arg(t)
    \/ get_gpu_queue_id_append(t)
    \/ get_gpu_queue_id_return(t)
    \/ wait_busy(t)
    \/ wait_head(t)
    \/ wait_sleep(t)
    \/ acquire_gpu(t)
    \/ copy_request(t)
    \/ dispatch(t)
    \/ dispatch_raises(t)
    \/ check_response(t)
    \/ release_gpu_remove(t)
    \/ release_gpu_flag(t)
    \/ except_head(t)
    \/ except_remove(t)

Next == \E t \in Workers : Step(t)

Spec == Init /\ [][Next]_vars

\* ------------------------------------------------ release_gpu, called alone
\* release_gpu(gpu_queue_id) run to its end with no other thread in between
\* (lines 150-155): the ValueError of line 140 leaves before line 153.
release_gpu(q, busy, id) ==
    IF RemoveRaises(q, id)
    THEN [queue |-> q, busy |-> busy, raised |-> TRUE]
    ELSE [queue |-> remove_from_queue(q, id), busy |-> FALSE, raised |-> FALSE]

Queues == UNION {[1..n -> 0..MaxTicket] : n \in 1..MaxLen}

\* Worker 1 holds a ticket that is in the queue and is about to call
\* release_gpu for it, twice in a row; nobody else runs.
InitRelease ==
    /\ GPU_DEVICE_BUSY \in BOOLEAN
    /\ GPU_QUEUE \in Queues
    /\ GPU_QUEUE_ID = Max(Range(GPU_QUEUE))
    /\ pc = [t \in Workers |-> IF t = 1 THEN "twice_0" ELSE "idle"]
    /\ reg = [t \in Workers |-> 0]
    /\ gpu_queue_id \in {[t \in Workers |-> IF t = 1 THEN id ELSE NoTicket] :
                            id \in Range(GPU_QUEUE)}
    /\ count = [t \in Workers |-> 0]
    /\ response = [t \in Workers |-> Unbound]
    /\ handling = [t \in Workers |-> FALSE]
    /\ result = [t \in Workers |-> NoResult]
    /\ calls = 0
    /\ callNo = [t \in Workers |-> 0]
    /\ tickets = [c \in CallIds |-> NoTicket]
    /\ floorId = [c \in CallIds |-> NoTicket]
    /\ enqOrder = <<>>
    /\ acqOrder = <<>>
    /\ acquired = [t \in Workers |-> FALSE]
    /\ releasing = [t \in Workers |-> FALSE]
    /\ self = InitialParams
    /\ fc = [t \in Workers |-> InitialParams]

\* One whole call of release_gpu(gpu_queue_id) by worker t.
release_gpu_call(t) ==
    /\ pc[t] \in {"twice_0", "twice_1"}
    /\ LET r == release_gpu(GPU_QUEUE, GPU_DEVICE_BUSY, gpu_queue_id[t])
       IN  /\ GPU_QUEUE' = r.queue
           /\ GPU_DEVICE_BUSY' = r.busy
           /\ pc' = [pc EXCEPT ![t] =
                        IF r.raised THEN "twice_raised"
                        ELSE IF pc[t] = "twice_0" THEN "twice_1" ELSE "twice_2"]
    /\ UNCHANGED <<servicer, GPU_QUEUE_ID, reg, gpu_queue_id, count, response, handling,
                   result, history>>

NextRelease == \E t \in Workers : release_gpu_call(t)

SpecRelease == InitRelease /\ [][NextRelease]_vars

\* ------------------------------------------ remove_from_queue, called alone
\* Worker 1 is about to call remove_from_queue for some ticket, wherever it
\* stands in the queue (or absent); nobody else runs.
InitRemove ==
    /\ GPU_DEVICE_BUSY \in BOOLEAN
    /\ GPU_QUEUE \in Queues
    /\ GPU_QUEUE_ID = Max(Range(GPU_QUEUE))
    /\ pc = [t \in Workers |-> IF t = 1 THEN "remove_0" ELSE "idle"]
    /\ reg = [t \in Workers |-> 0]
    /\ gpu_queue_id \in {[t \in Workers |-> IF t = 1 THEN id ELSE NoTicket] :
                            id \in 0..MaxTicket}
    /\ count = [t \in Workers |-> 0]
    /\ response = [t \in Workers |-> Unbound]
    /\ handling = [t \in Workers |-> FALSE]
    /\ result = [t \in Workers |-> NoResult]
    /\ calls = 0
    /\ callNo = [t \in Workers |-> 0]
    /\ tickets = [c \in CallIds |-> NoTicket]
    /\ floorId = [c \in CallIds |-> NoTicket]
    /\ enqOrder = <<>>
    /\ acqOrder = <<>>
    /\ acquired = [t \in Workers |-> FALSE]
    /\ releasing = [t \in Workers |-> FALSE]
    /\ self = InitialParams
    /\ fc = [t \in Workers |-> InitialParams]

\* One call of remove_from_queue(gpu_queue_id) by worker t (lines 138-140).
remove_from_queue_call(t) ==
    /\ pc[t] = "remove_0"
    /\ IF RemoveRaises(GPU_QUEUE, gpu_queue_id[t])
       THEN /\ GPU_QUEUE' = GPU_QUEUE
            /\ pc' = [pc EXCEPT ![t] = "remove_raised"]
       ELSE /\ GPU_QUEUE' = remove_from_queue(GPU_QUEUE, gpu_queue_id[t])
            /\ pc' = [pc EXCEPT ![t] = "removed"]
    /\ UNCHANGED <<servicer, GPU_DEVICE_BUSY, GPU_QUEUE_ID, reg, gpu_queue_id, count,
                   response, handling, result, history>>

NextRemove == \E t \in Workers : remove_from_queue_call(t)

SpecRemove == InitRemove /\ [][NextRemove]_vars

\* Fair scheduling of the worker threads: a worker that can take a step of its
\* call (a bytecode, a poll, the join of a forecast process that terminates)
\* eventually takes one. Arrivals of new calls are not forced.
Run(t) ==
    \/ get_gpu_queue_id_store(t)
    \/ get_gpu_queue_id_arg(t)
    \/ get_gpu_queue_id_append(t)
    \/ get_gpu_queue_id_return(t)
    \/ wait_busy(t)
    \/ wait_head(t)
    \/ wait_sleep(t)
    \/ acquire_gpu(t)
    \/ copy_request(t)
    \/ dispatch(t)
    \/ check_response(t)
    \/ release_gpu_remove(t)
    \/ release_gpu_flag(t)
    \/ except_head(t)
    \/ except_remove(t)

FairSpec == Init /\ [][Next]_vars /\ \A t \in Workers : WF_vars(Run(t))

\* ------------------------------------------------------------------- claims
\* The call of worker t is past acquire_gpu and has neither entered
\* release_gpu nor returned: its forecast process may be on the device.
Holding(t) == acquired[t] /\ ~releasing[t] /\ pc[t] # "done"

\* The call of worker t has a ticket and has not returned.
Ticketed(t) == pc[t] \notin {"idle", "gid_store", "gid_arg", "gid_append", "gid_return", "done"}

InWaitLoop(t) == pc[t] \in {"wait_busy", "wait_head", "wait_sleep"}

\* Position of call c in a history sequence that holds it.
Pos(s, c) == IndexOf(s, c)

\* C1: mutual exclusion: at most one call at a time is between its
\* acquire_gpu and its release of the resource.
C1_MutualExclusion == Cardinality({t \in Workers : Holding(t)}) <= 1

\* C2: ticket uniqueness: no two calls are returned the same ticket, and a
\* call that starts get_gpu_queue_id after another has finished it gets a
\* strictly larger ticket.
C2_TicketUniqueness ==
    /\ \A c, d \in CallIds :
          (c # d /\ tickets[c] # NoTicket /\ tickets[d] # NoTicket) => tickets[c] # tickets[d]
    /\ \A c \in CallIds : tickets[c] # NoTicket => tickets[c] > floorId[c]

\* C3: after a forecast call has returned, whatever its outcome, its ticket
\* is not in GPU_QUEUE and GPU_DEVICE_BUSY is not left True on its behalf
\* (if the flag is True, a call still in progress has acquired it).
C3_CleanAfterReturn ==
    \A t \in Workers :
        pc[t] = "done" =>
            /\ gpu_queue_id[t] \notin Range(GPU_QUEUE)
            /\ GPU_DEVICE_BUSY =>
                  \E u \in Workers : u # t /\ acquired[u] /\ pc[u] # "done"

\* C4: FIFO acquisition: calls acquire in the order in which they were
\* enqueued: if A was appended to the queue before B and both have acquired,
\* A acquired first.
C4_FifoAcquisition ==
    \A i, j \in 1..Len(acqOrder) :
        i < j => Pos(enqOrder, acqOrder[i]) < Pos(enqOrder, acqOrder[j])

\* C5: timeout: a call whose wait has passed the poll limit has stopped
\* waiting, never acquires, and returns a failure to its caller.
C5_Timeout ==
    \A t \in Workers :
        count[t] > PollLimit =>
            /\ ~InWaitLoop(t)
            /\ pc[t] # "acquire"
            /\ ~acquired[t]
            /\ pc[t] = "done" => result[t].output # SuccessOutput(response[t])

\* C6: no deadlock: under fair scheduling, with every dispatched forecast
\* process terminating, every call that obtained a ticket eventually returns.
C6_NoDeadlock == \A t \in Workers : Ticketed(t) ~> (pc[t] = "done")

\* C7: release is idempotent: of two calls of release_gpu in a row for the
\* same ticket, each leaves GPU_DEVICE_BUSY False, neither raises, and the
\* second changes nothing.
C7_ReleaseIdempotent ==
    [][\A t \in Workers :
          (pc[t] \in {"twice_0", "twice_1"} /\ pc'[t] # pc[t]) =>
              /\ pc'[t] # "twice_raised"
              /\ ~GPU_DEVICE_BUSY'
              /\ pc[t] = "twice_1" => GPU_QUEUE' = GPU_QUEUE]_vars

\* C8: a call whose computation reported an error or produced no result
\* returns the default Output with status INTERNAL and a message.
C8_FailureIsInternal ==
    \A t \in Workers :
        (pc[t] = "done" /\ IsFailure(response[t])) =>
            /\ result[t].status = "returned"
            /\ result[t].output = OutputDefault
            /\ result[t].code = "INTERNAL"
            /\ result[t].details \notin {"None", "unset"}

C10_SuccessOutput ==
    \A t \in Workers :
        (pc[t] = "done" /\ response[t].kind = "ok") =>
            /\ result[t].status = "returned"
            /\ result[t].output.last_sax_word = response[t].last_sax_word
            /\ result[t].output.forecast_sax_letter = response[t].forecast_sax_letter
            /\ result[t].output.position_in_sax_interval = response[t].position_in_sax_interval

\* C11: GPU_DEVICE_BUSY is True exactly when some call has run acquire_gpu
\* and has not yet released (it is still in progress, line 153 not yet run).
C11_BusyIffHolder ==
    GPU_DEVICE_BUSY <=> \E t \in Workers : acquired[t] /\ pc[t] # "done"

\* C12: acquisition is an atomic check-and-set: whenever a call is about to
\* run acquire_gpu, GPU_DEVICE_BUSY is False and its ticket is GPU_QUEUE[0].
C12_AtomicAcquire ==
    \A t \in Workers :
        pc[t] = "acquire" =>
            /\ ~GPU_DEVICE_BUSY
            /\ Len(GPU_QUEUE) > 0
            /\ GPU_QUEUE[1] = gpu_queue_id[t]

\* C13: each ticket identifier appears at most once in GPU_QUEUE.
C13_NoDuplicateInQueue ==
    \A i, j \in 1..Len(GPU_QUEUE) : i # j => GPU_QUEUE[i] # GPU_QUEUE[j]

\* C14: per-call parameter isolation: the Forecast a call has dispatched was
\* built from that call's own request parameters.
C14_ParameterIsolation ==
    \A t \in Workers :
        response[t].kind # "unbound" => fc[t] = Request(callNo[t])

\* s with its i-th element taken out.
Without(s, i) == [j \in 1..(Len(s) - 1) |-> IF j < i THEN s[j] ELSE s[j + 1]]

\* C15: remove_from_queue deletes exactly one entry, the given ticket,
\* whatever its position: the other entries stay, in the same order, and
\* GPU_DEVICE_BUSY and GPU_QUEUE_ID are left unchanged.
C15_RemoveExactlyOne ==
    [][\A t \in Workers :
          (pc[t] = "remove_0" /\ pc'[t] = "removed") =>
              /\ \E i \in 1..Len(GPU_QUEUE) :
                    /\ GPU_QUEUE[i] = gpu_queue_id[t]
                    /\ GPU_QUEUE' = Without(GPU_QUEUE, i)
              /\ GPU_DEVICE_BUSY' = GPU_DEVICE_BUSY
              /\ GPU_QUEUE_ID' = GPU_QUEUE_ID]_vars

\* Ticket 1 has been removed from a queue of three where it was not alone.
C15_Witness ==
    /\ pc[1] = "removed"
    /\ gpu_queue_id[1] = 1
    /\ GPU_QUEUE = <<0, 2>>

\* C16: waiting is read-only: every step of a call's poll loop, before and
\* after the poll limit is passed, leaves GPU_QUEUE, GPU_QUEUE_ID and
\* GPU_DEVICE_BUSY unchanged.
C16_WaitReadOnly ==
    [][\A t \in Workers :
          (InWaitLoop(t) /\ pc'[t] # pc[t]) => shared' = shared]_vars

\* A call has polled past the limit and is back at the loop test.
C16_Witness ==
    \E t \in Workers : count[t] > PollLimit /\ pc[t] = "wait_busy"

\* C17: enqueue consistency: the identifier get_gpu_queue_id returned to a
\* call is the value that call appended to GPU_QUEUE.
C17_EnqueueConsistency ==
    \A t \in Workers : gpu_queue_id[t] # NoTicket => gpu_queue_id[t] = reg[t]

====
